---- MODULE Spec2Model ----
(***************************************************************************)
(* The quote / settlement core of the remittance prototypes src/app.py     *)
(* ("Denzel's Remit") and src/App.py ("Remittance App Prototype").         *)
(*                                                                         *)
(* Both files are Streamlit scripts: every widget interaction re-executes  *)
(* the whole script top to bottom against st.session_state.  An action of  *)
(* this model is one script run (or, for the Confirm handler, which sleeps *)
(* and then mutates, one segment of a run).                                *)
(*                                                                         *)
(* Money is kept in cents (amount 100.00 is 10000), rates in hundredths    *)
(* (rate 0.93 is 93, rate 1620.0 is 162000), time in minutes.              *)
(***************************************************************************)
EXTENDS Integers, Sequences, FiniteSets, TLC

VARIABLES
    now,              \* the wall clock read by datetime.now()
    uuid_ctr,         \* number of uuid.uuid4() values drawn so far
    phone,            \* app.py sidebar widget "Phone Number" (key="phone")
    receiver_phone,   \* widget "Receiver's Phone Number"
    users,            \* st.session_state.users : phone -> User
    quotes,           \* st.session_state.quotes : quote id -> Quote
    transactions,     \* st.session_state.transactions : list of Transaction
    current_quote,    \* st.session_state.current_quote, NoQuote when the key is absent
    confirm_button,   \* whether the page on screen shows the Confirm button
    pc,               \* position of the running script: "idle" when none runs
    shown,            \* what the last finished run reported to the user
    \* src/App.py only: its three input widgets, its second session key and its result
    source_currency,  \* selectbox "Send in"
    target_currency,  \* selectbox "Receive in"
    amount_sent,      \* number input "Amount to send"
    amount_received,  \* st.session_state["amount_received"]
    last_tx,          \* the Transaction the Confirm handler built and displayed
    \* direct calls of the functions only
    ret               \* what the last direct call of a function returned

\* the variables the script runs of src/app.py never touch
protoVars == <<source_currency, target_currency, amount_sent, amount_received, last_tx,
               ret>>

\* the variables the script runs of src/App.py never touch
appVars == <<transactions, pc, ret>>

vars == <<now, uuid_ctr, phone, receiver_phone, users, quotes, transactions,
          current_quote, confirm_button, pc, shown, source_currency,
          target_currency, amount_sent, amount_received, last_tx, ret>>

----------------------------------------------------------------------------
(* Bounds of the model *)

MaxTime == 12
MaxUuid == 4
MaxQuotes == 2

(* Program constants of src/app.py *)

QuoteTTL == 10
FeePermille == 12
FeeFixed == 50
MinAmount == 500
MaxAmount == 1500000

\* The clock is read at the start, the middle and the end of the horizon.
TickStep == MaxTime \div 2

\* Rates are kept in hundredths.
RateScale == 10 * 10

Currencies == {"USD", "EUR", "NGN"}

\* The phone numbers typed into the two text inputs; "+234" is the sidebar default.
Phones == {"", "+234", "+44"}

ReceiverPhones == {"", "+44"}

\* The (send, receive) selectbox choices explored: two pinned pairs and one pair
\* outside the base_rates table.
Pairs == {<<"USD", "NGN">>, <<"USD", "EUR">>, <<"EUR", "USD">>}

\* The amounts typed into the number input, all within its min_value / max_value.
Amounts == {10000, 1000000}

\* The values random.uniform(0.85, 1.15) is sampled at: both ends of the range.
FallbackRates == {85, 115}

----------------------------------------------------------------------------
(* Pure helpers *)

\* round(x, 0) for x = n / d, d > 0: to the nearest integer, ties to the even one.
RoundHalfEven(n, d) ==
    LET q == n \div d
        r == n % d
    IN  IF 2 * r < d THEN q
        ELSE IF 2 * r > d THEN q + 1
        ELSE IF q % 2 = 0 THEN q ELSE q + 1

\* calculate_fees: round(amount * 0.012 + 0.50, 2), in cents.
calculate_fees(amount) ==
    RoundHalfEven(amount * FeePermille + FeeFixed * 1000, 1000)

\* base_rates with the USD/EUR entry missing from the table.
base_rates_NoPin(source, target) ==
    IF source = "USD" /\ target = "NGN" THEN {162000}
    ELSE IF source = "EUR" /\ target = "NGN" THEN {175000}
    ELSE FallbackRates

\* base_rates of create_quote; pairs outside the table draw from random.uniform.
base_rates(source, target) ==
    IF source = "USD" /\ target = "EUR" THEN {93}
    ELSE IF source = "USD" /\ target = "NGN" THEN {162000}
    ELSE IF source = "EUR" /\ target = "NGN" THEN {175000}
    ELSE FallbackRates

\* received = round(amount * rate - fees, 2), in cents.
\* The whole part of the rate is multiplied out first to stay within 32-bit integers.
received_amount(amount, rate, fees) ==
    amount * (rate \div RateScale)
      + RoundHalfEven(amount * (rate % RateScale) - fees * RateScale, RateScale)

\* create_quote with the fee left out of the received amount.
create_quote_NoFee(id, source, target, amount, rate) ==
    [id |-> id,
     source_currency |-> source,
     target_currency |-> target,
     rate |-> rate,
     fees |-> calculate_fees(amount),
     expiry |-> now + QuoteTTL,
     amount_sent |-> amount,
     amount_received |-> received_amount(amount, rate, 0)]

\* PaymentProcessor.create_quote: the Quote it builds, given the uuid and the rate drawn.
create_quote(id, source, target, amount, rate) ==
    LET fees == calculate_fees(amount)
    IN  [id |-> id,
         source_currency |-> source,
         target_currency |-> target,
         rate |-> rate,
         fees |-> fees,
         expiry |-> now + QuoteTTL,
         amount_sent |-> amount,
         amount_received |-> received_amount(amount, rate, fees)]

\* "current_quote" not in st.session_state
NoQuote ==
    [id |-> 0, source_currency |-> "", target_currency |-> "", rate |-> 0,
     fees |-> 0, expiry |-> 0, amount_sent |-> 0, amount_received |-> 0]

\* The demo User the sidebar creates for a phone number.
DemoUser(id, ph) ==
    [id |-> id, name |-> "Denzel", phone |-> ph,
     currencies |-> [c \in Currencies |->
                        IF c = "USD" THEN 250000
                        ELSE IF c = "EUR" THEN 180000
                        ELSE 450000000]]

\* no function has been called directly
NoReturn == [fn |-> "", arg |-> 0, raised |-> "", value |-> 0]

\* Sidebar block: a non-empty phone that is not yet a user gets a demo user.
NeedsUser(ph) == ph # "" /\ ph \notin DOMAIN users

Sidebar(ph) ==
    IF NeedsUser(ph) THEN users @@ (ph :> DemoUser(uuid_ctr + 1, ph)) ELSE users

SidebarUuids(ph) == IF NeedsUser(ph) THEN 1 ELSE 0

\* remaining = max(0, (quote.expiry - datetime.now()).total_seconds()); remaining <= 0
Expired(q) == q.expiry - now <= 0

----------------------------------------------------------------------------
(* Initial state: the session after its first script run with the default  *)
(* widget values (phone "+234", no receiver).                              *)

Init ==
    /\ now = 0
    /\ uuid_ctr = 1
    /\ phone = "+234"
    /\ receiver_phone = ""
    /\ users = ("+234" :> DemoUser(1, "+234"))
    /\ quotes = <<>>
    /\ transactions = <<>>
    /\ current_quote = NoQuote
    /\ confirm_button = FALSE
    /\ pc = "idle"
    /\ shown = "none"
    /\ source_currency = "USD"
    /\ target_currency = "USD"
    /\ amount_sent = 0
    /\ amount_received = 0
    /\ last_tx = <<>>
    /\ ret = NoReturn

\* ShowQuote with an expired quote locked again for another QuoteTTL instead of dropped.
ShowQuote_Refresh(cq, msg) ==
    IF cq = NoQuote
    THEN /\ current_quote' = NoQuote
         /\ confirm_button' = FALSE
         /\ shown' = msg
    ELSE IF Expired(cq)
    THEN /\ current_quote' = [cq EXCEPT !.expiry = now + QuoteTTL]
         /\ confirm_button' = TRUE
         /\ shown' = "expired"
    ELSE /\ current_quote' = cq
         /\ confirm_button' = TRUE
         /\ shown' = msg

----------------------------------------------------------------------------
(* The part of a run below the buttons: the block guarded by               *)
(* `"current_quote" in st.session_state`, for a run in which the Confirm   *)
(* button was not clicked.  cq is the current quote when the block starts. *)
ShowQuote(cq, msg) ==
    IF cq = NoQuote
    THEN /\ current_quote' = NoQuote
         /\ confirm_button' = FALSE
         /\ shown' = msg
    ELSE IF Expired(cq)
    THEN /\ current_quote' = NoQuote
         /\ confirm_button' = FALSE
         /\ shown' = "expired"
    ELSE /\ current_quote' = cq
         /\ confirm_button' = TRUE
         /\ shown' = msg

\* The clock moves on to its next reading.  Nothing stops it while a handler sleeps.
Tick ==
    /\ now + TickStep <= MaxTime
    /\ now' = now + TickStep
    /\ UNCHANGED <<uuid_ctr, phone, receiver_phone, users, quotes, transactions,
                   current_quote, confirm_button, pc, shown, protoVars>>

\* A text input is edited: the script runs with no button clicked.
Rerun(ph, rp) ==
    /\ pc = "idle"
    /\ uuid_ctr + SidebarUuids(ph) <= MaxUuid
    /\ phone' = ph
    /\ receiver_phone' = rp
    /\ users' = Sidebar(ph)
    /\ uuid_ctr' = uuid_ctr + SidebarUuids(ph)
    /\ IF rp = ""
       THEN /\ confirm_button' = FALSE
            /\ shown' = "none"
            /\ UNCHANGED current_quote
       ELSE ShowQuote(current_quote, "none")
    /\ UNCHANGED <<now, quotes, transactions, pc, protoVars>>

\* GetQuote with the store rebuilt around the new quote instead of extended by it.
GetQuote_Replace(source_curr, target_curr, amount, rate) ==
    /\ pc = "idle"
    /\ receiver_phone # ""
    /\ amount >= MinAmount /\ amount <= MaxAmount
    /\ amount > 0
    /\ uuid_ctr + 1 <= MaxUuid
    /\ Cardinality(DOMAIN quotes) < MaxQuotes
    /\ LET quote == create_quote(uuid_ctr + 1, source_curr, target_curr, amount, rate)
       IN  /\ quotes' = (quote.id :> quote)
           /\ ShowQuote(quote, "quote")
    /\ uuid_ctr' = uuid_ctr + 1
    /\ UNCHANGED <<now, phone, receiver_phone, users, transactions, pc, protoVars>>

\* "Get Locked Quote" is clicked with the given selectbox / number input values.
GetQuote(source_curr, target_curr, amount, rate) ==
    /\ pc = "idle"
    /\ receiver_phone # ""
    /\ amount >= MinAmount /\ amount <= MaxAmount
    /\ amount > 0
    /\ uuid_ctr + 1 <= MaxUuid
    /\ Cardinality(DOMAIN quotes) < MaxQuotes
    /\ LET quote == create_quote(uuid_ctr + 1, source_curr, target_curr, amount, rate)
       IN  /\ quotes' = quotes @@ (quote.id :> quote)
           /\ ShowQuote(quote, "quote")
    /\ uuid_ctr' = uuid_ctr + 1
    /\ UNCHANGED <<now, phone, receiver_phone, users, transactions, pc, protoVars>>

\* "Confirm & Transfer" is clicked: the run up to time.sleep(2.5) in the handler.
ConfirmClick ==
    /\ pc = "idle"
    /\ confirm_button
    /\ IF receiver_phone = ""
       THEN /\ confirm_button' = FALSE
            /\ shown' = "none"
            /\ UNCHANGED <<current_quote, pc>>
       ELSE IF current_quote = NoQuote \/ Expired(current_quote)
       THEN /\ ShowQuote(current_quote, "no_quote")
            /\ UNCHANGED pc
       ELSE /\ uuid_ctr + 1 <= MaxUuid
            /\ pc' = "processing"
            /\ UNCHANGED <<current_quote, confirm_button, shown>>
    /\ UNCHANGED <<now, uuid_ctr, phone, receiver_phone, users, quotes, transactions,
                   protoVars>>

\* The Transaction the handler builds from the quote read at the top of the block.
NewTransaction(id, quote) ==
    [id |-> id,
     sender_id |-> users[phone].id,
     receiver_id |-> receiver_phone,
     amount_sent |-> quote.amount_sent,
     currency_sent |-> quote.source_currency,
     amount_received |-> quote.amount_received,
     currency_received |-> quote.target_currency,
     quote_id |-> quote.id,
     status |-> "Settled"]

\* sender_bal.balance -= (quote.amount_sent + quote.fees)
Debit(us, ph, quote) ==
    [us EXCEPT ![ph].currencies[quote.source_currency] =
                    @ - (quote.amount_sent + quote.fees)]

\* After the sleep: build the Transaction, append it, debit the sender.
\* st.session_state.users[phone] raises KeyError when the phone field is empty.
ConfirmCommit ==
    /\ pc = "processing"
    /\ IF phone \notin DOMAIN users
       THEN /\ pc' = "idle"
            /\ shown' = "error"
            /\ UNCHANGED <<uuid_ctr, users, transactions>>
       ELSE /\ transactions' = Append(transactions, NewTransaction(uuid_ctr + 1, current_quote))
            /\ users' = Debit(users, phone, current_quote)
            /\ uuid_ctr' = uuid_ctr + 1
            /\ pc' = "committed"
            /\ UNCHANGED shown
    /\ UNCHANGED <<now, phone, receiver_phone, quotes, current_quote, confirm_button,
                   protoVars>>

\* ConfirmClear without its del: the settled quote stays the current quote.
ConfirmClear_NoDel ==
    /\ pc = "committed"
    /\ shown' = "settled"
    /\ pc' = "idle"
    /\ UNCHANGED <<now, uuid_ctr, phone, receiver_phone, users, quotes, transactions,
                   current_quote, confirm_button, protoVars>>

\* The run reaches `del st.session_state.current_quote` and ends.
ConfirmClear ==
    /\ pc = "committed"
    /\ current_quote' = NoQuote
    /\ shown' = "settled"
    /\ pc' = "idle"
    /\ UNCHANGED <<now, uuid_ctr, phone, receiver_phone, users, quotes, transactions,
                   confirm_button, protoVars>>

\* A widget interaction arrives while the handler runs: Streamlit stops the run at its
\* next st.* call (st.balloons / st.success / st.markdown), before the del.
Interrupt ==
    /\ pc = "committed"
    /\ pc' = "idle"
    /\ shown' = "interrupted"
    /\ UNCHANGED <<now, uuid_ctr, phone, receiver_phone, users, quotes, transactions,
                   current_quote, confirm_button, protoVars>>

Next ==
    \/ Tick
    \/ \E ph \in Phones, rp \in ReceiverPhones : Rerun(ph, rp)
    \/ \E p \in Pairs, a \in Amounts :
          \E r \in base_rates(p[1], p[2]) : GetQuote(p[1], p[2], a, r)
    \/ ConfirmClick
    \/ ConfirmCommit
    \/ ConfirmClear
    \/ Interrupt

Spec == Init /\ [][Next]_vars

\* The same session when no interaction arrives while a handler runs: every run
\* reaches the end of the script.
NextSeq ==
    \/ Tick
    \/ \E ph \in Phones, rp \in ReceiverPhones : Rerun(ph, rp)
    \/ \E p \in Pairs, a \in Amounts :
          \E r \in base_rates(p[1], p[2]) : GetQuote(p[1], p[2], a, r)
    \/ ConfirmClick
    \/ ConfirmCommit
    \/ ConfirmClear

SpecSeq == Init /\ [][NextSeq]_vars

----------------------------------------------------------------------------
(* src/App.py, the earlier prototype.  Its `users` and `quotes` are module   *)
(* globals, rebuilt by every script run; only st.session_state and the      *)
(* widget values survive a run.  It keeps no transaction list and debits no *)
(* balance: the Confirm handler builds a Transaction and displays it.       *)

ProtoQuoteTTL == 5
ProtoFeePermille == 15
ProtoFeeFixed == 100
ProtoMinAmount == 100
ProtoMaxAmount == 1000000

ProtoSenderPhones == {"", "+234123456789"}
ProtoReceiverPhones == {"", "+44", "+234123456789"}

\* The amounts in "Amount to send": its default (min_value) and one typed value.
ProtoAmounts == {ProtoMinAmount, 10000}

\* The (send, receive) selectbox choices explored: the defaults and the pinned pair.
ProtoPairs == {<<"USD", "USD">>, <<"USD", "EUR">>}

\* The values random.uniform(0.8, 1.2) is sampled at: both ends of the range.
ProtoFallbackRates == {80, 120}

\* calculate_fees: round(amount * 0.015 + 1.0, 2), in cents.  For amount 1.00 the
\* double 1.0 * 0.015 + 1.0 lies just below the half-cent tie 1.015 and rounds to 1.01.
proto_calculate_fees(amount) ==
    IF amount = ProtoMinAmount THEN ProtoFeeFixed + 1
    ELSE RoundHalfEven(amount * ProtoFeePermille + ProtoFeeFixed * 1000, 1000)

\* rate = 0.92 if source == "USD" and target == "EUR" else random.uniform(0.8, 1.2)
proto_rates(source, target) ==
    IF source = "USD" /\ target = "EUR" THEN {92} ELSE ProtoFallbackRates

\* PaymentProcessor.create_quote of src/App.py: a Quote without amounts.
proto_create_quote(id, source, target, amount, rate) ==
    [id |-> id,
     source_currency |-> source,
     target_currency |-> target,
     rate |-> rate,
     fees |-> proto_calculate_fees(amount),
     expiry |-> now + ProtoQuoteTTL]

\* amount_received = round(amount_sent * quote.rate - quote.fees, 2)
proto_amount_received(amount, quote) ==
    received_amount(amount, quote.rate, quote.fees)

ProtoNoQuote ==
    [id |-> 0, source_currency |-> "", target_currency |-> "", rate |-> 0,
     fees |-> 0, expiry |-> 0]

\* The globals after the "fake create sender" block of a run.
ProtoUsers(sp) ==
    IF sp = "" THEN <<>>
    ELSE (sp :> [id |-> "user123", name |-> "Denzel", phone |-> sp,
                 currencies |-> [c \in {"USD", "NGN"} |->
                                    IF c = "USD" THEN 500000 ELSE 500000000]])

\* resolve_receiver and the choice of supported_currencies
supported_currencies(sp, rp) ==
    IF rp \in DOMAIN ProtoUsers(sp) THEN DOMAIN ProtoUsers(sp)[rp].currencies
    ELSE Currencies

\* whether a run gets as far as the quote buttons
ProtoFormShown(sp, rp) == sp # "" /\ rp # ""

ProtoInit ==
    /\ now = 0
    /\ uuid_ctr = 0
    /\ phone = "+234123456789"
    /\ receiver_phone = ""
    /\ users = ProtoUsers("+234123456789")
    /\ quotes = <<>>
    /\ transactions = <<>>
    /\ current_quote = ProtoNoQuote
    /\ confirm_button = FALSE
    /\ pc = "idle"
    /\ shown = "none"
    /\ source_currency = "USD"
    /\ target_currency = "USD"
    /\ amount_sent = ProtoMinAmount
    /\ amount_received = 0
    /\ last_tx = <<>>
    /\ ret = NoReturn

\* A widget is edited: the script runs with no button clicked.
ProtoRerun(sp, rp, s, t, a) ==
    /\ t \in supported_currencies(sp, rp)
    /\ ~ProtoFormShown(sp, rp) =>
          /\ s = source_currency
          /\ t = target_currency
          /\ a = amount_sent
    /\ phone' = sp
    /\ receiver_phone' = rp
    /\ source_currency' = s
    /\ target_currency' = t
    /\ amount_sent' = a
    /\ users' = ProtoUsers(sp)
    /\ quotes' = <<>>
    /\ confirm_button' = (ProtoFormShown(sp, rp) /\ current_quote.id # 0)
    /\ shown' = "none"
    /\ UNCHANGED <<now, uuid_ctr, current_quote, amount_received, last_tx, appVars>>

\* "Get Quote" is clicked.
ProtoGetQuote(rate) ==
    /\ ProtoFormShown(phone, receiver_phone)
    /\ amount_sent >= ProtoMinAmount /\ amount_sent <= ProtoMaxAmount
    /\ amount_sent > 0
    /\ uuid_ctr + 1 <= MaxUuid
    /\ LET quote == proto_create_quote(uuid_ctr + 1, source_currency, target_currency,
                                       amount_sent, rate)
       IN  /\ quotes' = (quote.id :> quote)
           /\ current_quote' = quote
           /\ amount_received' = proto_amount_received(amount_sent, quote)
    /\ uuid_ctr' = uuid_ctr + 1
    /\ users' = ProtoUsers(phone)
    /\ confirm_button' = TRUE
    /\ shown' = "quote"
    /\ UNCHANGED <<now, phone, receiver_phone, source_currency, target_currency,
                   amount_sent, last_tx, appVars>>

\* The Transaction of the Confirm handler: built from the widgets and the session.
ProtoTransaction(id) ==
    [id |-> id,
     sender_id |-> "user123",
     receiver_id |-> receiver_phone,
     amount_sent |-> amount_sent,
     currency_sent |-> source_currency,
     amount_received |-> amount_received,
     currency_received |-> target_currency,
     quote_id |-> current_quote.id,
     status |-> "Settled"]

\* "Confirm & Send" is clicked.
ProtoConfirm ==
    /\ confirm_button
    /\ users' = ProtoUsers(phone)
    /\ quotes' = <<>>
    /\ IF ProtoFormShown(phone, receiver_phone) /\ current_quote.id # 0
       THEN /\ uuid_ctr + 1 <= MaxUuid
            /\ last_tx' = ProtoTransaction(uuid_ctr + 1)
            /\ uuid_ctr' = uuid_ctr + 1
            /\ current_quote' = ProtoNoQuote
            /\ confirm_button' = TRUE
            /\ shown' = "settled"
       ELSE /\ confirm_button' = FALSE
            /\ shown' = "no_quote"
            /\ UNCHANGED <<last_tx, uuid_ctr, current_quote>>
    /\ UNCHANGED <<now, phone, receiver_phone, source_currency, target_currency,
                   amount_sent, amount_received, appVars>>

ProtoNext ==
    \/ Tick
    \/ \E sp \in ProtoSenderPhones, rp \in ProtoReceiverPhones, p \in ProtoPairs,
          a \in ProtoAmounts : ProtoRerun(sp, rp, p[1], p[2], a)
    \/ \E r \in proto_rates(source_currency, target_currency) : ProtoGetQuote(r)
    \/ ProtoConfirm

SpecProto == ProtoInit /\ [][ProtoNext]_vars

----------------------------------------------------------------------------
(* The functions of src/app.py called directly, with arguments the widgets  *)
(* of the page would not let through: PaymentProcessor.create_quote and     *)
(* calculate_fees validate nothing themselves.                              *)

\* The currency pairs passed to create_quote: "GBP" is in no selectbox.
CallPairs == {<<"USD", "EUR">>, <<"GBP", "USD">>, <<"USD", "GBP">>}

\* The amounts passed: below min_value, inside the range, above max_value.
CallAmounts == {MinAmount - 1, 10000, MaxAmount + 1}

\* The amounts passed to calculate_fees: negative, zero and positive ones.
FeeAmounts == {0 - 10000, 0, 1} \cup CallAmounts

\* processor.create_quote(source, target, amount): never raises, always stores.
CallCreateQuote(source, target, amount, rate) ==
    /\ uuid_ctr + 1 <= MaxUuid
    /\ Cardinality(DOMAIN quotes) < MaxQuotes
    /\ LET quote == create_quote(uuid_ctr + 1, source, target, amount, rate)
       IN  /\ quotes' = quotes @@ (quote.id :> quote)
           /\ ret' = [fn |-> "create_quote", arg |-> amount, raised |-> "",
                      value |-> quote.id]
    /\ uuid_ctr' = uuid_ctr + 1
    /\ UNCHANGED <<now, phone, receiver_phone, users, transactions, current_quote,
                   confirm_button, pc, shown, source_currency, target_currency,
                   amount_sent, amount_received, last_tx>>

\* calculate_fees(amount): never raises.
CallCalculateFees(amount) ==
    /\ ret' = [fn |-> "calculate_fees", arg |-> amount, raised |-> "",
               value |-> calculate_fees(amount)]
    /\ UNCHANGED <<now, uuid_ctr, phone, receiver_phone, users, quotes, transactions,
                   current_quote, confirm_button, pc, shown, source_currency,
                   target_currency, amount_sent, amount_received, last_tx>>

CallNext ==
    \/ Tick
    \/ \E p \in CallPairs, a \in CallAmounts :
          \E r \in base_rates(p[1], p[2]) : CallCreateQuote(p[1], p[2], a, r)
    \/ \E a \in FeeAmounts : CallCalculateFees(a)

SpecCall == Init /\ [][CallNext]_vars

----------------------------------------------------------------------------
(* Properties *)

\* the positions in the transaction list of the Transactions settling quote q
TxFor(q) == {i \in DOMAIN transactions : transactions[i].quote_id = q}

C2_NoDoubleSettlement ==
    \A i \in DOMAIN transactions, j \in DOMAIN transactions :
        transactions[i].quote_id = transactions[j].quote_id => i = j

\* C3: no Transaction is appended, and no debit applied, at a time later than the
\* expiry of the quote being settled.
C3_NoSettlementAfterExpiry ==
    [][(pc = "processing" /\ (transactions' # transactions \/ users' # users))
          => now <= current_quote.expiry]_vars

\* C4: a Confirm whose sender holds less than amount_sent + fees in the quote's source
\* currency is refused: no balance changes, no Transaction is appended and the quote
\* stays the current quote.
C4_InsufficientFundsRejected ==
    [][(/\ pc = "processing"
        /\ pc' # "processing"
        /\ phone \in DOMAIN users
        /\ users[phone].currencies[current_quote.source_currency]
              < current_quote.amount_sent + current_quote.fees)
          => UNCHANGED <<users, transactions, current_quote>>]_vars

\* C5: every currency balance of every user is >= 0 in every reachable state.
C5_BalancesNonNegative ==
    \A ph \in DOMAIN users : \A c \in DOMAIN users[ph].currencies :
        users[ph].currencies[c] >= 0

\* C6: the step that settles a quote debits the sender's source-currency balance by
\* amount_sent + fees and credits the receiver's target-currency balance by
\* amount_received, creating the receiver's account when it is missing.
C6_DebitAndCredit ==
    [][transactions' # transactions =>
          LET q == current_quote
              rp == receiver_phone
              same == rp = phone /\ q.source_currency = q.target_currency
              debit == q.amount_sent + q.fees
              credit == q.amount_received
              before == IF rp \in DOMAIN users
                        THEN users[rp].currencies[q.target_currency] ELSE 0
          IN  /\ users'[phone].currencies[q.source_currency]
                    = users[phone].currencies[q.source_currency] - debit
                        + (IF same THEN credit ELSE 0)
              /\ rp \in DOMAIN users'
              /\ users'[rp].currencies[q.target_currency]
                    = before + credit - (IF same THEN debit ELSE 0)]_vars

\* the total debited from user uid in currency c by the first n Transactions
RECURSIVE DebitsOf(_, _, _)
DebitsOf(uid, c, n) ==
    IF n = 0 THEN 0
    ELSE LET tx == transactions[n]
         IN  DebitsOf(uid, c, n - 1)
               + (IF tx.sender_id = uid /\ tx.currency_sent = c
                  THEN tx.amount_sent + quotes[tx.quote_id].fees ELSE 0)

\* every balance is the demo balance less the debits of the recorded Transactions:
\* no Transaction without its debit, no debit without its Transaction
LedgerMatchesDebits ==
    \A ph \in DOMAIN users : \A c \in Currencies :
        users[ph].currencies[c] + DebitsOf(users[ph].id, c, Len(transactions))
            = DemoUser(users[ph].id, ph).currencies[c]

\* C7: settlement is all-or-nothing.  A Confirm run that ended without completing (an
\* exception in the handler, or the run being stopped part-way) has left no
\* Transaction for its quote, and Transactions and debits always match.
C7_AllOrNothing ==
    /\ LedgerMatchesDebits
    /\ (pc = "idle" /\ shown \in {"error", "interrupted"})
          => TxFor(current_quote.id) = {}

\* The status get_quote would report for a stored quote: the code keeps no status
\* field, so it is read off the transaction list and the clock.
Status(q) ==
    IF TxFor(q) # {} THEN "Consumed"
    ELSE IF now > quotes[q].expiry THEN "Expired"
    ELSE "Active"

\* C8: Expired and Consumed are terminal: a quote whose status is Expired stays
\* Expired, and a Consumed quote stays Consumed.
C8_StatusTerminal ==
    [][\A q \in DOMAIN quotes :
          /\ Status(q) = "Expired" => Status(q)' = "Expired"
          /\ Status(q) = "Consumed" => Status(q)' = "Consumed"]_vars

\* the distance of x from y
Dist(x, y) == IF x >= y THEN x - y ELSE y - x

\* C9: every quote create_quote stores has rate > 0, fees >= 0 and an amount_received
\* that is amount_sent * rate - fees rounded to the nearest cent, for the rate and fees
\* of that same quote; 100.00 USD -> NGN gives fees 1.70 and amount_received 161998.30.
C9_QuoteArithmetic ==
    \A id \in DOMAIN quotes :
        LET q == quotes[id]
            whole == q.amount_sent * (q.rate \div RateScale)
            part == q.amount_sent * (q.rate % RateScale) - q.fees * RateScale
        IN  /\ q.rate > 0
            /\ q.fees >= 0
            /\ 2 * Dist((q.amount_received - whole) * RateScale, part) <= RateScale
            /\ (q.source_currency = "USD" /\ q.target_currency = "NGN"
                  /\ q.amount_sent = 10000)
                  => (q.fees = 170 /\ q.amount_received = 16199830)

\* C9 witness: the quote of the example is in the store.
C9_Witness ==
    \E id \in DOMAIN quotes :
        /\ quotes[id].source_currency = "USD"
        /\ quotes[id].target_currency = "NGN"
        /\ quotes[id].amount_sent = 10000
        /\ quotes[id].amount_received = 16199830

\* C10: no quote with a negative received amount is ever stored: the received amount
\* locked with the current quote is >= 0.
C10_NoNegativeQuote ==
    current_quote.id # 0 => amount_received >= 0

\* C11: create_quote called with an amount outside [min_amount, max_amount] fails with
\* InvalidAmount, and called with a currency code outside the supported set fails
\* with UnsupportedCurrency; in both cases no quote is stored, so every stored quote
\* has an amount within the bounds and two supported codes.
C11_InvalidInputRejected ==
    /\ \A id \in DOMAIN quotes :
          /\ quotes[id].amount_sent >= MinAmount
          /\ quotes[id].amount_sent <= MaxAmount
          /\ quotes[id].source_currency \in Currencies
          /\ quotes[id].target_currency \in Currencies
    /\ (ret.fn = "create_quote" /\ (ret.arg < MinAmount \/ ret.arg > MaxAmount))
          => ret.raised = "InvalidAmount"

\* C12: The transaction log is consistent with the quote store: every Transaction has
\* status Settled, its quote_id is the id of a quote present in the quote collection,
\* no two Transactions share a quote_id, and a Transaction once appended is never
\* changed or removed.
C12_LogConsistent ==
    /\ [](\A i \in DOMAIN transactions :
             /\ transactions[i].status = "Settled"
             /\ transactions[i].quote_id \in DOMAIN quotes
             /\ \A j \in DOMAIN transactions :
                   transactions[j].quote_id = transactions[i].quote_id => j = i)
    /\ [][/\ Len(transactions') >= Len(transactions)
          /\ \A i \in DOMAIN transactions : transactions'[i] = transactions[i]]_vars

\* The parts of C12 other than the uniqueness of quote_id, which hold under Spec.
C12_LogAppendOnly ==
    /\ [](\A i \in DOMAIN transactions :
             /\ transactions[i].status = "Settled"
             /\ transactions[i].quote_id \in DOMAIN quotes)
    /\ [][/\ Len(transactions') >= Len(transactions)
          /\ \A i \in DOMAIN transactions : transactions'[i] = transactions[i]]_vars

\* A click on "Confirm & Transfer" would settle quote q: it is the quote the page
\* holds, it has not expired and no Transaction names it.
Settleable(q) ==
    /\ current_quote # NoQuote
    /\ current_quote.id = q
    /\ ~Expired(current_quote)
    /\ TxFor(q) = {}

\* C13: Several quotes may be Active at once and are independent: creating a second
\* quote neither changes the first nor makes it unsettleable, and settling one quote
\* leaves the status and the settleability of every other quote unchanged.
C13_QuotesIndependent ==
    [][\A q \in DOMAIN quotes :
          /\ (quotes' # quotes /\ Settleable(q))
                => (q \in DOMAIN quotes' /\ quotes'[q] = quotes[q] /\ Settleable(q)')
          /\ (Len(transactions') > Len(transactions)
                /\ transactions'[Len(transactions')].quote_id # q)
                => (Status(q)' = Status(q) /\ Settleable(q)' = Settleable(q))]_vars

\* C14: create_quote changes only the quote collection, where it inserts exactly one
\* new quote under a fresh id: the balances, the quotes stored before and the
\* transaction log are unchanged by it.
C14_CreateQuoteFrame ==
    [][quotes' # quotes =>
          /\ users' = users
          /\ transactions' = transactions
          /\ \A q \in DOMAIN quotes : q \in DOMAIN quotes' /\ quotes'[q] = quotes[q]
          /\ Cardinality(DOMAIN quotes' \ DOMAIN quotes) = 1]_vars

\* A second quote is stored after a settlement has debited the sender.
C14_Witness ==
    /\ Cardinality(DOMAIN quotes) = 2
    /\ Len(transactions) >= 1
    /\ \E q \in DOMAIN quotes : TxFor(q) = {}

\* C15: A quote observed expired is only reported and dropped: the observation stores
\* no replacement quote, settles nothing and debits nobody; a new quote appears only
\* through an explicit quote request; and the rate, fee and expiry of a quote, stored
\* or held by the page, are never refreshed.
C15_NoAutoRequote ==
    /\ [](shown = "expired" => current_quote = NoQuote)
    /\ [][(shown' = "expired" /\ current_quote # NoQuote) =>
             /\ quotes' = quotes
             /\ transactions' = transactions
             /\ \A ph \in DOMAIN users : ph \in DOMAIN users' /\ users'[ph] = users[ph]]_vars
    /\ [][quotes' # quotes => shown' = "quote"]_vars
    /\ [][\A q \in DOMAIN quotes : q \in DOMAIN quotes' /\ quotes'[q] = quotes[q]]_vars
    /\ [][current_quote' \in {current_quote, NoQuote} \/ shown' = "quote"]_vars

\* A stored quote has been observed expired and dropped from the page.
C15_Witness ==
    /\ shown = "expired"
    /\ current_quote = NoQuote
    /\ \E q \in DOMAIN quotes : Expired(quotes[q]) /\ TxFor(q) = {}

\* C16: calculate_fees returns a fee >= 0 for every amount > 0, is monotonically
\* non-decreasing in the amount after rounding, and fails with InvalidAmount when
\* the amount is not positive.
C16_FeeContract ==
    /\ \A a \in FeeAmounts : a > 0 => calculate_fees(a) >= 0
    /\ \A a, b \in FeeAmounts : (0 < a /\ a <= b) => calculate_fees(a) <= calculate_fees(b)
    /\ (ret.fn = "calculate_fees" /\ ret.arg > 0) => (ret.raised = "" /\ ret.value >= 0)
    /\ (ret.fn = "calculate_fees" /\ ret.arg <= 0) => ret.raised = "InvalidAmount"

\* The parts of C16 about positive amounts, which hold.
C16_FeePositiveMonotone ==
    /\ \A a \in FeeAmounts : a > 0 => calculate_fees(a) >= 0
    /\ \A a, b \in FeeAmounts : (0 < a /\ a <= b) => calculate_fees(a) <= calculate_fees(b)
    /\ (ret.fn = "calculate_fees" /\ ret.arg > 0) => (ret.raised = "" /\ ret.value >= 0)

\* The pairs with an entry in the base_rates table.
Pinned(source, target) ==
    <<source, target>> \in {<<"USD", "EUR">>, <<"USD", "NGN">>, <<"EUR", "NGN">>}

\* C17: Rate resolution yields a rate > 0 for every pair, and is deterministic for the
\* pinned pairs: two quotes created for the same pinned pair and the same amount
\* carry the same rate, fee and amount_received.
C17_RateDeterministic ==
    /\ \A s \in Currencies \cup {"GBP"}, t \in Currencies \cup {"GBP"} :
          /\ base_rates(s, t) # {}
          /\ \A r \in base_rates(s, t) : r > 0
    /\ \A q \in DOMAIN quotes : quotes[q].rate > 0
    /\ \A q1, q2 \in DOMAIN quotes :
          (/\ Pinned(quotes[q1].source_currency, quotes[q1].target_currency)
           /\ quotes[q1].source_currency = quotes[q2].source_currency
           /\ quotes[q1].target_currency = quotes[q2].target_currency
           /\ quotes[q1].amount_sent = quotes[q2].amount_sent)
          => /\ quotes[q1].rate = quotes[q2].rate
             /\ quotes[q1].fees = quotes[q2].fees
             /\ quotes[q1].amount_received = quotes[q2].amount_received

\* Two quotes for the same pinned pair and amount, created at different times.
C17_Witness ==
    \E q1, q2 \in DOMAIN quotes :
        /\ q1 # q2
        /\ Pinned(quotes[q1].source_currency, quotes[q1].target_currency)
        /\ quotes[q1].source_currency = quotes[q2].source_currency
        /\ quotes[q1].target_currency = quotes[q2].target_currency
        /\ quotes[q1].amount_sent = quotes[q2].amount_sent
        /\ quotes[q1].expiry # quotes[q2].expiry

\* C18: A settled Transaction carries exactly the locked values of the quote it
\* references: its amount_sent, currency_sent, currency_received and amount_received
\* are those fixed when the quote was created, even if the amount or currency inputs
\* were changed between the quote request and the confirmation.
C18_TransactionCarriesQuote ==
    /\ [](\A i \in DOMAIN transactions :
             LET tx == transactions[i]
             IN  /\ tx.quote_id \in DOMAIN quotes
                 /\ tx.amount_sent = quotes[tx.quote_id].amount_sent
                 /\ tx.currency_sent = quotes[tx.quote_id].source_currency
                 /\ tx.currency_received = quotes[tx.quote_id].target_currency
                 /\ tx.amount_received = quotes[tx.quote_id].amount_received)
    /\ [][(shown' = "settled" /\ last_tx' # <<>> /\ current_quote.id # 0) =>
             /\ last_tx'.quote_id = current_quote.id
             /\ last_tx'.currency_sent = current_quote.source_currency
             /\ last_tx'.currency_received = current_quote.target_currency
             /\ current_quote.fees = proto_calculate_fees(last_tx'.amount_sent)
             /\ last_tx'.amount_received =
                   proto_amount_received(last_tx'.amount_sent, current_quote)]_vars

====
